---- MODULE Spec2Model ----
(***************************************************************************)
(* Top-K ranking with a binary min-heap (estructuras_datos/heap.py), the   *)
(* heap-based selector (sistema_rec/sistema_rec1.py), the full-sort        *)
(* selector (sistema_rec/sistema_rec_naive.py) and the comparison harness  *)
(* (tests/benchmark.py).                                                   *)
(*                                                                         *)
(* Conventions.                                                            *)
(*  - A heap element is the Python tuple (score, item_id), modelled as     *)
(*    <<score, id>>.  Scores are Python floats: the finite ones are        *)
(*    modelled by naturals, float("inf") by Inf, which is larger than      *)
(*    every finite score.  NaN is outside the model (tuple comparison is   *)
(*    not an order on NaN).                                                *)
(*  - item_id is a Python str, modelled by a natural in string order; the  *)
(*    empty string "" (the smallest string) is EmptyId.                    *)
(*  - Python lists are 0-indexed, TLA+ sequences 1-indexed: At(d, i) reads *)
(*    the list slot i, and parent/left/right compute 0-based indices       *)
(*    exactly as the source does.                                          *)
(*  - A raised exception is recorded in res (heap calls) or err (selector  *)
(*    run); the object keeps the state the code left it in.                *)
(*  - The wall-clock fields of the report row, AP@K and NDCG@K are not     *)
(*    modelled.                                                            *)
(***************************************************************************)
EXTENDS Integers, Sequences, FiniteSets, Bags, TLC

\* ---------------------------------------------------------------- bounds
MaxScore  == 0     \* finite scores handed to the heap API: 0..MaxScore
MaxId     == 1     \* item ids handed to the heap API: EmptyId..MaxId
MaxHeap   == 4     \* heap API driver: largest heap / build array length
MaxSort   == 3     \* heap-sort driver: number of inserted pairs
MaxEvents == 3     \* rating events in a category file
MaxItem   == 2     \* item ids in a category file: EmptyId..MaxItem
MaxRating == 2     \* finite ratings in a category file: 0..MaxRating
MaxK      == 3     \* K of a selector run: 0..MaxK
MaxRank   == 3     \* metrics driver: length of a ranking
MaxRankId == 2     \* metrics driver: item ids of a ranking: EmptyId..MaxRankId
MaxCats   == 2     \* batch run: length of the category list
MaxBatchEvents == 1  \* batch run: rating events in one category file
MaxReads  == 3     \* batch run: no direct top_k call once this many reads were made
MantissaBits == 4  \* significand width of a float (53 in Python), scaled down

\* ------------------------------------------------------------ value model
Inf      == 1000000000
EmptyId  == 0
Sentinel == <<Inf, EmptyId>>
NoValue  == <<>>

Lt(a, b) == a[1] < b[1] \/ (a[1] = b[1] /\ a[2] < b[2])
Gt(a, b) == Lt(b, a)
Le(a, b) == ~Lt(b, a)

At(d, i) == d[i + 1]
Put(d, i, v) == [d EXCEPT ![i + 1] = v]
Swap(d, i, j) == [d EXCEPT ![i + 1] = d[j + 1], ![j + 1] = d[i + 1]]
Pop(d) == SubSeq(d, 1, Len(d) - 1)

\* ------------------------------------------------------------------ heap
parent(i) == (i - 1) \div 2
left(i) == 2 * i + 1
right(i) == 2 * i + 2

RECURSIVE min_heapify(_, _)
min_heapify(d, i) ==
  LET n == Len(d)
      l == left(i)
      r == right(i)
      s1 == IF l < n /\ Lt(At(d, l), At(d, i)) THEN l ELSE i
      smallest == IF r < n /\ Lt(At(d, r), At(d, s1)) THEN r ELSE s1
  IN IF smallest # i
       THEN min_heapify(Swap(d, i, smallest), smallest)
       ELSE d

RECURSIVE HeapifyRange(_, _, _)
HeapifyRange(d, i, stop) ==
  IF i <= stop THEN d ELSE HeapifyRange(min_heapify(d, i), i - 1, stop)

build_min_heap_skip_root(array) ==
  HeapifyRange(array, Len(array) \div 2 - 1, 0)

build_min_heap(array) ==
  HeapifyRange(array, Len(array) \div 2 - 1, -1)

heap_minimum_none(d) ==
  [res |-> "ok", ret |-> IF d = <<>> THEN NoValue ELSE d[1], data |-> d]

heap_minimum(d) ==
  IF d = <<>>
    THEN [res |-> "IndexError", ret |-> NoValue, data |-> d]
    ELSE [res |-> "ok", ret |-> d[1], data |-> d]

heap_extract_min_no_heapify(d) ==
  IF d = <<>>
    THEN [res |-> "IndexError", ret |-> NoValue, data |-> d]
    ELSE [res |-> "ok", ret |-> d[1], data |-> Pop(Put(d, 0, d[Len(d)]))]

heap_extract_min(d) ==
  IF d = <<>>
    THEN [res |-> "IndexError", ret |-> NoValue, data |-> d]
    ELSE LET moved == Pop(Put(d, 0, d[Len(d)]))
         IN [res |-> "ok", ret |-> d[1],
             data |-> IF moved # <<>> THEN min_heapify(moved, 0) ELSE moved]

RECURSIVE SiftUp(_, _)
SiftUp(d, i) ==
  IF i > 0 /\ Gt(At(d, parent(i)), At(d, i))
    THEN SiftUp(Swap(d, i, parent(i)), parent(i))
    ELSE d

heap_decrease_key_no_sift(d, i, key) ==
  IF Gt(key, At(d, i))
    THEN [res |-> "ValueError", ret |-> NoValue, data |-> d]
    ELSE [res |-> "ok", ret |-> NoValue, data |-> Put(d, i, key)]

heap_decrease_key_write_first(d, i, key) ==
  IF Gt(key, At(d, i))
    THEN [res |-> "ValueError", ret |-> NoValue, data |-> Put(d, i, key)]
    ELSE [res |-> "ok", ret |-> NoValue, data |-> SiftUp(Put(d, i, key), i)]

heap_decrease_key(d, i, key) ==
  IF Gt(key, At(d, i))
    THEN [res |-> "ValueError", ret |-> NoValue, data |-> d]
    ELSE [res |-> "ok", ret |-> NoValue, data |-> SiftUp(Put(d, i, key), i)]

min_heap_insert(d, key) ==
  heap_decrease_key(Append(d, Sentinel), Len(d), key)

\* -------------------------------------------------------------- variables
VARIABLES
  data,        \* MinHeap._data
  op,          \* heap API driver: name of the last public call
  arg,         \* heap API driver: arguments of the last public call
  res,         \* heap API driver: "ok" or the exception the last call raised
  ret,         \* heap API driver: value the last call returned
  pc,          \* position of the running driver
  ins,         \* heap-sort driver: the pairs passed to min_heap_insert
  out,         \* heap-sort driver: the pairs returned by heap_extract_min
  file,        \* harness: the rating events of the category file, in order
  k,           \* harness: K
  aggregated,  \* SistemaRec1.top_k: the dict, as <<id, sum, count>> in
               \* insertion (= iteration) order
  idx,         \* SistemaRec1.top_k: 0-based position of the for loop
  result,      \* SistemaRec1.top_k: the list result
  naive,       \* harness: results_naive
  row,         \* harness: the metrics of the report row
  err,         \* harness: the exception that ended the run, or "none"
  cats,        \* batch run: the category list, each entry the state of its
               \* record file; a category is named by its list position
  ci,          \* batch run: 0-based position of the for loop
  rows,        \* batch run: rows
  reads,       \* number of times a record file has been read and aggregated
  timedReads   \* those of the reads made between a t0 = perf_counter() and
               \* the perf_counter() that closes the interval

callVars == <<op, arg, res, ret>>
sortVars == <<ins, out>>
runVars == <<file, k, aggregated, idx, result, naive, row, err>>
batchVars == <<cats, ci, rows>>
ioVars == <<reads, timedReads>>
vars == <<data, op, arg, res, ret, pc, ins, out,
          file, k, aggregated, idx, result, naive, row, err,
          cats, ci, rows, reads, timedReads>>

\* prec, jacc and rho of benchmark_category, and the spearman_rho cell of
\* the row; no row yet
NoRow == [precision_at_k |-> <<0, 0>>, jaccard_at_k |-> <<0, 0>>,
          spearman_rho |-> <<0, 0>>, spearman_rho_cell |-> ""]

IdleCall ==
  /\ op = "init"
  /\ arg = NoValue
  /\ res = "ok"
  /\ ret = NoValue

IdleSort ==
  /\ ins = <<>>
  /\ out = <<>>

IdleBatch ==
  /\ cats = <<>>
  /\ ci = 0
  /\ rows = <<>>

IdleIo ==
  /\ reads = 0
  /\ timedReads = 0

IdleRun ==
  /\ file = <<>>
  /\ k = 0
  /\ aggregated = <<>>
  /\ idx = 0
  /\ result = <<>>
  /\ naive = <<>>
  /\ row = NoRow
  /\ err = "none"
  /\ IdleBatch
  /\ IdleIo

\* ------------------------------------------------- heap API driver (SpecHeap)
Scores == (0..MaxScore) \cup {Inf}
Ids == EmptyId..MaxId
Values == Scores \X Ids
Arrays == UNION {[1..n -> Values] : n \in 0..MaxHeap}

InitHeap ==
  /\ data = <<>>
  /\ pc = "api"
  /\ IdleCall
  /\ IdleSort
  /\ IdleRun

Call(name, a, r) ==
  /\ op' = name
  /\ arg' = a
  /\ res' = r.res
  /\ ret' = r.ret
  /\ data' = r.data
  /\ UNCHANGED <<pc, sortVars, runVars, batchVars, ioVars>>

BuildMinHeap ==
  \E array \in Arrays :
    Call("build_min_heap", array,
         [res |-> "ok", ret |-> NoValue, data |-> build_min_heap(array)])

HeapMinimum == Call("heap_minimum", NoValue, heap_minimum(data))

HeapExtractMin == Call("heap_extract_min", NoValue, heap_extract_min(data))

HeapDecreaseKey ==
  \E i \in 0..(Len(data) - 1), key \in Values :
    Call("heap_decrease_key", <<i, key>>, heap_decrease_key(data, i, key))

MinHeapInsert ==
  /\ Len(data) < MaxHeap
  /\ \E key \in Values :
       Call("min_heap_insert", key, min_heap_insert(data, key))

NextHeap ==
  \/ BuildMinHeap
  \/ HeapMinimum
  \/ HeapExtractMin
  \/ HeapDecreaseKey
  \/ MinHeapInsert

SpecHeap == InitHeap /\ [][NextHeap]_vars

\* ------------------------------------------- heap-sort driver (SpecSort)
\* tests/test_sistema_rec1.py, test_extract_min_order, for any inserted pairs:
\* insert every pair, then extract until the heap is empty.  A ValueError out
\* of min_heap_insert ends the run.
InitSort ==
  /\ data = <<>>
  /\ pc = "inserting"
  /\ IdleCall
  /\ IdleSort
  /\ IdleRun

SortInsert ==
  /\ pc = "inserting"
  /\ Len(ins) < MaxSort
  /\ \E key \in Values :
       LET r == min_heap_insert(data, key)
       IN /\ data' = r.data
          /\ ins' = Append(ins, key)
          /\ pc' = IF r.res = "ok" THEN "inserting" ELSE "raised"
  /\ UNCHANGED <<callVars, out, runVars, batchVars, ioVars>>

SortExtract ==
  /\ pc \in {"inserting", "extracting"}
  /\ Len(data) > 0
  /\ LET r == heap_extract_min(data)
     IN /\ data' = r.data
        /\ out' = Append(out, r.ret)
  /\ pc' = "extracting"
  /\ UNCHANGED <<callVars, ins, runVars, batchVars, ioVars>>

SortFinish ==
  /\ pc \in {"inserting", "extracting"}
  /\ Len(data) = 0
  /\ pc' = "sorted"
  /\ UNCHANGED <<data, callVars, sortVars, runVars, batchVars, ioVars>>

NextSort ==
  \/ SortInsert
  \/ SortExtract
  \/ SortFinish

SpecSort == InitSort /\ [][NextSort]_vars

\* ------------------------------------------------- aggregation and score
\* float addition of non-negative ratings: inf absorbs
\* the spacing of floats around x >= 0: 1 below 2^MantissaBits, doubling with
\* every binade above
RECURSIVE UlpFrom(_, _)
UlpFrom(x, u) == IF x < u * 2^MantissaBits THEN u ELSE UlpFrom(x, 2 * u)

\* x rounded to the nearest float, halves to the even significand
RoundToFloat(x) ==
  LET u == UlpFrom(x, 1)
      q == x \div u
      r == x % u
  IN IF 2 * r < u THEN q * u
     ELSE IF 2 * r > u THEN (q + 1) * u
     ELSE IF q % 2 = 0 THEN q * u ELSE (q + 1) * u

\* float addition: aggregated[parent_asin][0] += rating
FloatAdd(a, b) == IF a = Inf \/ b = Inf THEN Inf ELSE RoundToFloat(a + b)

Position(agg, id) ==
  IF \E p \in DOMAIN agg : agg[p][1] = id
    THEN CHOOSE p \in DOMAIN agg : agg[p][1] = id
    ELSE 0

RECURSIVE AggregateFrom(_, _)
AggregateFrom(events, agg) ==
  IF events = <<>>
    THEN agg
    ELSE LET parent_asin == Head(events)[1]
             rating == Head(events)[2]
             p == Position(agg, parent_asin)
         IN AggregateFrom(Tail(events),
              IF p # 0
                THEN [agg EXCEPT ![p] = <<parent_asin,
                                          FloatAdd(agg[p][2], rating),
                                          agg[p][3] + 1>>]
                ELSE Append(agg, <<parent_asin, rating, 1>>))

load_and_aggregate(events) == AggregateFrom(events, <<>>)

\* 1000 * math.log(x), rounded, for the x = 1 + count a file can produce
LogMilli(x) ==
  CASE x = 2 -> 693
    [] x = 3 -> 1099
    [] x = 4 -> 1386
    [] x = 5 -> 1609
    [] x = 6 -> 1792
    [] x = 7 -> 1946
    [] x = 8 -> 2079

RECURSIVE Factorial(_)
Factorial(n) == IF n <= 1 THEN 1 ELSE n * Factorial(n - 1)

\* count divides ScoreUnit for every count a file can produce, so that the
\* division sum_ratings / count is exact in units of 1 / ScoreUnit
ScoreUnit == Factorial(MaxEvents)

compute_score_mean_only(sum_ratings, count) ==
  IF sum_ratings = Inf
    THEN Inf
    ELSE sum_ratings * (ScoreUnit \div count) * 1000

\* (sum_ratings / count) * math.log(1 + count), in units of
\* 1 / (1000 * ScoreUnit); an infinite sum gives an infinite score
compute_score(sum_ratings, count) ==
  IF sum_ratings = Inf
    THEN Inf
    ELSE (sum_ratings * (ScoreUnit \div count)) * LogMilli(1 + count)

\* ------------------------------------------------------ full-sort selector
Scored(agg) == [p \in DOMAIN agg |-> <<compute_score(agg[p][2], agg[p][3]), agg[p][1]>>]

\* list.sort(reverse=True): descending, equal elements keep their order
RECURSIVE InsertDesc(_, _)
InsertDesc(sorted, x) ==
  IF sorted = <<>>
    THEN <<x>>
    ELSE IF Lt(Head(sorted), x)
           THEN <<x>> \o sorted
           ELSE <<Head(sorted)>> \o InsertDesc(Tail(sorted), x)

RECURSIVE SortDesc(_)
SortDesc(s) ==
  IF s = <<>> THEN <<>> ELSE InsertDesc(SortDesc(SubSeq(s, 1, Len(s) - 1)), s[Len(s)])

Take(s, n) == SubSeq(s, 1, IF n < Len(s) THEN n ELSE Len(s))

naive_top_k(events, kk) == Take(SortDesc(Scored(load_and_aggregate(events))), kk)

Reverse(s) == [i \in 1..Len(s) |-> s[Len(s) + 1 - i]]

\* ------------------------------------------------------------------ metrics
\* a float result is the exact fraction <<numerator, denominator>>;
\* <<0, 0>> is float("nan")
NaN == <<0, 0>>
IdSet(ranking) == {ranking[i][2] : i \in DOMAIN ranking}
RankOf(ranking, id) == (CHOOSE i \in DOMAIN ranking : ranking[i][2] = id
                          /\ \A j \in DOMAIN ranking : ranking[j][2] = id => j <= i) - 1

precision_at_k(ref, evl) ==
  IF IdSet(evl) = {}
    THEN <<0, 1>>
    ELSE <<Cardinality(IdSet(ref) \cap IdSet(evl)), Cardinality(IdSet(evl))>>

jaccard_at_k(ranking_a, ranking_b) ==
  IF IdSet(ranking_a) \cup IdSet(ranking_b) = {}
    THEN <<0, 1>>
    ELSE <<Cardinality(IdSet(ranking_a) \cap IdSet(ranking_b)),
           Cardinality(IdSet(ranking_a) \cup IdSet(ranking_b))>>

RECURSIVE SumOver(_, _, _, _)
SumOver(items, ranking_a, ranking_b, acc) ==
  IF items = {}
    THEN acc
    ELSE LET item == CHOOSE x \in items : TRUE
             d == RankOf(ranking_a, item) - RankOf(ranking_b, item)
         IN SumOver(items \ {item}, ranking_a, ranking_b, acc + d * d)

spearman_rho_needs_three(ranking_a, ranking_b) ==
  LET common == IdSet(ranking_a) \cap IdSet(ranking_b)
      n == Cardinality(common)
      d_sq_sum == SumOver(common, ranking_a, ranking_b, 0)
  IN IF n <= 2
       THEN NaN
       ELSE <<n * (n * n - 1) - 6 * d_sq_sum, n * (n * n - 1)>>

spearman_rho_numerator_only(ranking_a, ranking_b) ==
  LET common == IdSet(ranking_a) \cap IdSet(ranking_b)
      n == Cardinality(common)
      d_sq_sum == SumOver(common, ranking_a, ranking_b, 0)
  IN IF n < 2
       THEN NaN
       ELSE <<1 - 6 * d_sq_sum, n * (n * n - 1)>>

spearman_rho(ranking_a, ranking_b) ==
  LET common == IdSet(ranking_a) \cap IdSet(ranking_b)
      n == Cardinality(common)
      d_sq_sum == SumOver(common, ranking_a, ranking_b, 0)
  IN IF n < 2
       THEN NaN
       ELSE <<n * (n * n - 1) - 6 * d_sq_sum, n * (n * n - 1)>>

\* round(x, 4) in units of 1/10000: nearest, halves to even
Round4(q) ==
  LET n == q[1] * 10000
      d == q[2]
      fl == n \div d
      r == n - fl * d
  IN IF 2 * r < d THEN fl
     ELSE IF 2 * r > d THEN fl + 1
     ELSE IF fl % 2 = 0 THEN fl ELSE fl + 1

\* round(rho, 4) if not math.isnan(rho) else "NaN", as the text of the cell
RhoCell(rho) == IF rho = NaN THEN "NaN" ELSE ToString(Round4(rho))

\* ----------------------------------------- harness, one category (Spec)
Items == EmptyId..MaxItem
Ratings == (0..MaxRating) \cup {Inf}
Events == Items \X Ratings
Files == UNION {[1..n -> Events] : n \in 0..MaxEvents}

Init ==
  /\ data = <<>>
  /\ pc = "start"
  /\ IdleCall
  /\ IdleSort
  /\ file \in Files
  /\ k \in 0..MaxK
  /\ aggregated = <<>>
  /\ idx = 0
  /\ result = <<>>
  /\ naive = <<>>
  /\ row = NoRow
  /\ err = "none"
  /\ IdleBatch
  /\ IdleIo

CurrentItem == <<compute_score(aggregated[idx + 1][2], aggregated[idx + 1][3]),
                 aggregated[idx + 1][1]>>

\* benchmark_category, lines 172-173, and SistemaRec1.top_k, lines 90-91:
\* the file is read by top_k, after t0 was taken
Rec1Load ==
  /\ pc = "start"
  /\ aggregated' = load_and_aggregate(file)
  /\ reads' = reads + 1
  /\ timedReads' = timedReads + 1
  /\ data' = <<>>
  /\ idx' = 0
  /\ pc' = "loop"
  /\ UNCHANGED <<callVars, sortVars, batchVars, file, k, result, naive, row, err>>

\* SistemaRec1.top_k, lines 93-98: the loop head and the choice of the branch
Rec1Loop ==
  /\ pc = "loop"
  /\ idx < Len(aggregated)
  /\ IF Len(data) < k
       THEN pc' = "append" /\ UNCHANGED <<idx, err>>
       ELSE LET m == heap_minimum(data)
            IN IF m.res # "ok"
                 THEN pc' = "raised" /\ err' = m.res /\ UNCHANGED idx
                 ELSE IF CurrentItem[1] > m.ret[1]
                        THEN pc' = "extract" /\ UNCHANGED <<idx, err>>
                        ELSE pc' = "loop" /\ idx' = idx + 1 /\ UNCHANGED err
  /\ UNCHANGED <<data, callVars, sortVars, batchVars, ioVars, file, k, aggregated, result, naive, row>>

Rec1ExtractSkipped ==
  /\ pc = "extract"
  /\ pc' = "append"
  /\ UNCHANGED <<data, callVars, sortVars, runVars, batchVars, ioVars>>

\* SistemaRec1.top_k, line 99
Rec1Extract ==
  /\ pc = "extract"
  /\ data' = heap_extract_min(data).data
  /\ pc' = "append"
  /\ UNCHANGED <<callVars, sortVars, runVars, batchVars, ioVars>>

\* MinHeap.min_heap_insert, line 95, called from lines 97 and 100
Rec1Append ==
  /\ pc = "append"
  /\ data' = Append(data, Sentinel)
  /\ pc' = "decrease"
  /\ UNCHANGED <<callVars, sortVars, runVars, batchVars, ioVars>>

\* MinHeap.min_heap_insert, line 96, called from lines 97 and 100
Rec1DecreaseKey ==
  /\ pc = "decrease"
  /\ LET r == heap_decrease_key(data, Len(data) - 1, CurrentItem)
     IN /\ data' = r.data
        /\ IF r.res = "ok"
             THEN pc' = "loop" /\ idx' = idx + 1 /\ UNCHANGED err
             ELSE pc' = "raised" /\ err' = r.res /\ UNCHANGED idx
  /\ UNCHANGED <<callVars, sortVars, batchVars, ioVars, file, k, aggregated, result, naive, row>>

\* SistemaRec1.top_k, lines 103-105
Rec1Drain ==
  /\ \/ pc = "loop" /\ idx = Len(aggregated)
     \/ pc = "drain"
  /\ Len(data) > 0
  /\ LET r == heap_extract_min(data)
     IN /\ data' = r.data
        /\ result' = Append(result, r.ret)
  /\ pc' = "drain"
  /\ UNCHANGED <<callVars, sortVars, batchVars, ioVars, file, k, aggregated, idx, naive, row, err>>

Rec1ReturnNotReversed ==
  /\ \/ pc = "loop" /\ idx = Len(aggregated)
     \/ pc = "drain"
  /\ Len(data) = 0
  /\ result' = result
  /\ pc' = "naive"
  /\ UNCHANGED <<data, callVars, sortVars, batchVars, ioVars, file, k, aggregated, idx, naive, row, err>>

\* SistemaRec1.top_k, lines 104, 106-107
Rec1Return ==
  /\ \/ pc = "loop" /\ idx = Len(aggregated)
     \/ pc = "drain"
  /\ Len(data) = 0
  /\ result' = Reverse(result)
  /\ pc' = "naive"
  /\ UNCHANGED <<data, callVars, sortVars, batchVars, ioVars, file, k, aggregated, idx, naive, row, err>>

\* benchmark_category, lines 177-179: SistemaRecNaive.top_k reads the file
\* again, after t0 was taken
NaiveTopK ==
  /\ pc = "naive"
  /\ naive' = naive_top_k(file, k)
  /\ reads' = reads + 1
  /\ timedReads' = timedReads + 1
  /\ pc' = "metrics"
  /\ UNCHANGED <<data, callVars, sortVars, batchVars, file, k, aggregated, idx, result, row, err>>

\* benchmark_category, lines 184-201
Metrics ==
  /\ pc = "metrics"
  /\ row' = [precision_at_k |-> precision_at_k(naive, result),
             jaccard_at_k |-> jaccard_at_k(result, naive),
             spearman_rho |-> spearman_rho(naive, result),
             spearman_rho_cell |-> RhoCell(spearman_rho(naive, result))]
  /\ pc' = "done"
  /\ UNCHANGED <<data, callVars, sortVars, batchVars, ioVars, file, k, aggregated, idx, result, naive, err>>

Next ==
  \/ Rec1Load
  \/ Rec1Loop
  \/ Rec1Extract
  \/ Rec1Append
  \/ Rec1DecreaseKey
  \/ Rec1Drain
  \/ Rec1Return
  \/ NaiveTopK
  \/ Metrics

Spec == Init /\ [][Next]_vars

\* ------------------------------------------------ metrics driver (SpecMetric)
\* the metrics of benchmark_category applied to any two rankings
\* the metrics read only the item id of a ranking's pairs
RankItems == {0} \X (EmptyId..MaxRankId)
Rankings == UNION {[1..n -> RankItems] : n \in 0..MaxRank}

InitMetric ==
  /\ data = <<>>
  /\ pc = "metrics"
  /\ IdleCall
  /\ IdleSort
  /\ file = <<>>
  /\ k = 0
  /\ aggregated = <<>>
  /\ idx = 0
  /\ result \in Rankings
  /\ naive \in Rankings
  /\ row = NoRow
  /\ err = "none"
  /\ IdleBatch
  /\ IdleIo

NextMetric == Metrics

SpecMetric == InitMetric /\ [][NextMetric]_vars

\* ---------------------------------------------------- batch run (SpecBatch)
\* rank_with_heap: the selector of SistemaRec1.top_k over a loaded mapping,
\* run to its return or to the exception that ends it
RECURSIVE HeapLoop(_, _, _, _)
HeapLoop(agg, kk, i, d) ==
  IF i = Len(agg) THEN [res |-> "ok", data |-> d]
  ELSE LET item == <<compute_score(agg[i + 1][2], agg[i + 1][3]), agg[i + 1][1]>>
       IN IF Len(d) < kk
          THEN LET r == min_heap_insert(d, item)
               IN IF r.res = "ok" THEN HeapLoop(agg, kk, i + 1, r.data)
                  ELSE [res |-> r.res, data |-> r.data]
          ELSE LET m == heap_minimum(d)
               IN IF m.res # "ok" THEN [res |-> m.res, data |-> d]
                  ELSE IF item[1] > m.ret[1]
                  THEN LET r == min_heap_insert(heap_extract_min(d).data, item)
                       IN IF r.res = "ok" THEN HeapLoop(agg, kk, i + 1, r.data)
                          ELSE [res |-> r.res, data |-> r.data]
                  ELSE HeapLoop(agg, kk, i + 1, d)

RECURSIVE DrainAll(_, _)
DrainAll(d, acc) ==
  IF Len(d) = 0 THEN acc
  ELSE LET r == heap_extract_min(d) IN DrainAll(r.data, Append(acc, r.ret))

rank_with_heap(agg, kk) ==
  LET l == HeapLoop(agg, kk, 0, <<>>)
  IN IF l.res # "ok" THEN [res |-> l.res, ret |-> NoValue]
     ELSE [res |-> "ok", ret |-> Reverse(DrainAll(l.data, <<>>))]

\* SistemaRec1.top_k on a category whose record file may be missing
rec1_top_k(cat, kk) ==
  IF ~cat.exists THEN [res |-> "FileNotFoundError", ret |-> NoValue]
  ELSE rank_with_heap(load_and_aggregate(cat.events), kk)

\* benchmark_category: none is TRUE for the None of a skipped category, nreads
\* counts the reads of the record file made by the two top_k calls
benchmark_category(category, cat, kk) ==
  IF ~cat.exists THEN [res |-> "ok", none |-> TRUE, ret |-> NoRow, nreads |-> 0]
  ELSE LET results_rec1 == rec1_top_k(cat, kk)
           results_naive == naive_top_k(cat.events, kk)
           rho == spearman_rho(results_naive, results_rec1.ret)
       IN IF results_rec1.res # "ok"
          THEN [res |-> results_rec1.res, none |-> FALSE, ret |-> NoRow, nreads |-> 1]
          ELSE [res |-> "ok", none |-> FALSE, nreads |-> 2,
                ret |-> [category |-> category,
                         k |-> kk,
                         precision_at_k |-> precision_at_k(results_naive, results_rec1.ret),
                         jaccard_at_k |-> jaccard_at_k(results_rec1.ret, results_naive),
                         spearman_rho |-> rho,
                         spearman_rho_cell |-> RhoCell(rho)]]

MissingFile == [exists |-> FALSE, events |-> <<>>]
BatchFiles == UNION {[1..n -> Events] : n \in 0..MaxBatchEvents}
CategoryFiles == {MissingFile} \cup {[exists |-> TRUE, events |-> f] : f \in BatchFiles}
CategoryLists == UNION {[1..n -> CategoryFiles] : n \in 0..MaxCats}

InitBatch ==
  /\ data = <<>>
  /\ pc = "batch"
  /\ IdleCall
  /\ IdleSort
  /\ file = <<>>
  /\ k \in 0..MaxK
  /\ aggregated = <<>>
  /\ idx = 0
  /\ result = <<>>
  /\ naive = <<>>
  /\ row = NoRow
  /\ err = "none"
  /\ cats \in CategoryLists
  /\ ci = 0
  /\ rows = <<>>
  /\ IdleIo

\* a direct SistemaRec1(category, k).top_k() call on one of the categories
DirectTopK ==
  /\ pc = "batch"
  /\ reads < MaxReads
  /\ \E c \in DOMAIN cats :
       LET r == rec1_top_k(cats[c], k)
       IN /\ op' = "top_k"
          /\ arg' = c
          /\ res' = r.res
          /\ ret' = r.ret
          /\ reads' = reads + (IF cats[c].exists THEN 1 ELSE 0)
  /\ UNCHANGED <<data, pc, sortVars, runVars, batchVars, timedReads>>

\* run_benchmark, lines 213-218: one iteration of the loop over categories
BatchCategory ==
  /\ pc = "batch"
  /\ ci < Len(cats)
  /\ LET r == benchmark_category(ci + 1, cats[ci + 1], k)
     IN /\ reads' = reads + r.nreads
        /\ timedReads' = timedReads + r.nreads
        /\ IF r.res # "ok"
           THEN pc' = "raised" /\ err' = r.res /\ UNCHANGED <<ci, rows>>
           ELSE /\ ci' = ci + 1
                /\ rows' = IF r.none THEN rows ELSE Append(rows, r.ret)
                /\ UNCHANGED <<pc, err>>
  /\ UNCHANGED <<data, callVars, sortVars, file, k, aggregated, idx, result, naive, row, cats>>

\* run_benchmark, lines 229-238: the report is written from rows, when there
\* are any
BatchWrite ==
  /\ pc = "batch"
  /\ ci = Len(cats)
  /\ pc' = "written"
  /\ UNCHANGED <<data, callVars, sortVars, runVars, batchVars, ioVars>>

NextBatch ==
  \/ DirectTopK
  \/ BatchCategory
  \/ BatchWrite

SpecBatch == InitBatch /\ [][NextBatch]_vars

\* ------------------------------------------------ aggregator driver (SpecAgg)
\* _load_and_aggregate applied to a record file whose ratings reach the
\* magnitude at which float addition rounds
AggRatings == Ratings \cup {2^MantissaBits}
AggEvents == Items \X AggRatings
AggFiles == UNION {[1..n -> AggEvents] : n \in 0..MaxEvents}

InitAgg ==
  /\ data = <<>>
  /\ pc = "agg"
  /\ IdleCall
  /\ IdleSort
  /\ IdleRun

LoadAndAggregate ==
  /\ pc = "agg"
  /\ op = "init"
  /\ \E events \in AggFiles :
       Call("load_and_aggregate", events,
            [res |-> "ok", ret |-> load_and_aggregate(events), data |-> data])

NextAgg == LoadAndAggregate

SpecAgg == InitAgg /\ [][NextAgg]_vars

\* ---------------------------------------------------- score driver (SpecScore)
\* compute_score applied to two (sum_ratings, count) pairs, as the score tests
\* do; sums are those a category file can produce
ScoreSums == (0..(MaxRating * MaxEvents)) \cup {Inf}
ScoreCounts == 1..MaxEvents
ScoreInputs == ScoreSums \X ScoreCounts

InitScore ==
  /\ data = <<>>
  /\ pc = "score"
  /\ IdleCall
  /\ IdleSort
  /\ IdleRun

ComputeScorePair ==
  /\ pc = "score"
  /\ op = "init"
  /\ \E a \in ScoreInputs, b \in ScoreInputs :
       Call("compute_score", <<a, b>>,
            [res |-> "ok",
             ret |-> <<compute_score(a[1], a[2]), compute_score(b[1], b[2])>>,
             data |-> data])

NextScore == ComputeScorePair

SpecScore == InitScore /\ [][NextScore]_vars

\* ------------------------------------------------ properties of the heap API
Range(s) == {s[i] : i \in DOMAIN s}
BagOf(s) == [v \in Range(s) |-> Cardinality({i \in DOMAIN s : s[i] = v})]
SeqMin(s) == CHOOSE v \in Range(s) : \A w \in Range(s) : Le(v, w)
IsMinHeap(d) == \A i \in 1..(Len(d) - 1) : Le(At(d, parent(i)), At(d, i))

\* C4: after every completed public operation of MinHeap, in any sequence of
\* public calls starting from an empty heap, the backing array satisfies the
\* min-heap invariant data[parent(i)] <= data[i] for every 1 <= i < size.
C4_HeapInvariantAfterEveryCall ==
  (pc = "api" /\ res = "ok") => IsMinHeap(data)

\* C6: heap_decrease_key(i, v) with a valid index i and v greater than the
\* current value at i raises ValueError and leaves the contents and the size
\* of the heap exactly as they were before the call.
C6_DecreaseKeyGreaterFailsUnchanged ==
  [][(op' = "heap_decrease_key" /\ Gt(arg'[2], At(data, arg'[1])))
       => (res' = "ValueError" /\ data' = data)]_vars

C6_Witness ==
  /\ op = "heap_decrease_key"
  /\ res = "ValueError"
  /\ Len(data) >= 2
  /\ IsMinHeap(data)

\* C7: on a heap holding zero elements heap_minimum and heap_extract_min both
\* raise IndexError and the heap remains empty.
C7_EmptyHeapRaises ==
  [][(data = <<>> /\ op' \in {"heap_minimum", "heap_extract_min"})
       => (res' = "IndexError" /\ data' = <<>>)]_vars

C7_Witness ==
  /\ op = "heap_minimum"
  /\ res = "IndexError"
  /\ data = <<>>

\* C8: build_min_heap on a non-empty sequence, whatever the heap held before,
\* leaves a heap of the sequence's length holding exactly the multiset of the
\* sequence, on which heap_minimum returns the smallest element of the
\* sequence under tuple order.
C8_BuildThenMinimum ==
  (op = "build_min_heap" /\ Len(arg) > 0)
    => /\ heap_minimum(data).res = "ok"
       /\ heap_minimum(data).ret = SeqMin(arg)
       /\ BagOf(data) = BagOf(arg)
       /\ Len(data) = Len(arg)

C8_Witness ==
  /\ op = "build_min_heap"
  /\ Len(arg) >= 4
  /\ data # arg
  /\ arg[1] # SeqMin(arg)

\* C9: min_heap_insert(value) never raises ValueError for any (score, id)
\* pair, increases the size by exactly one and adds exactly that value to the
\* multiset of the heap (the sentinel is replaced by the value).
C9_InsertNeverFails ==
  [][(op' = "min_heap_insert")
       => /\ res' = "ok"
          /\ Len(data') = Len(data) + 1
          /\ BagOf(data') = BagOf(data) (+) BagOf(<<arg'>>)]_vars

NonDecreasingScores(s) == \A i \in 1..(Len(s) - 1) : s[i][1] <= s[i + 1][1]

\* C3: starting from an empty heap, after inserting any finite sequence of
\* (score, id) pairs with min_heap_insert, extracting until the heap is empty
\* returns exactly the inserted pairs, each once, with scores in
\* non-decreasing order.
C3_InsertThenExtractSorts ==
  /\ pc # "raised"
  /\ pc = "sorted" => (BagOf(out) = BagOf(ins) /\ NonDecreasingScores(out))

\* --------------------------------------------- properties of the selectors
NonIncreasingScores(s) == \A i \in 1..(Len(s) - 1) : s[i][1] >= s[i + 1][1]
Min(a, b) == IF a < b THEN a ELSE b
IsOne(q) == q[2] # 0 /\ q[1] = q[2]

\* C1: for every aggregated mapping of n items (equal scores included) and
\* every K with 1 <= K <= n, the heap-based selector and the full-sort
\* selector return the same set of item-ids, and both results are sorted
\* descending by score.
C1_SameIdSetsSortedDescending ==
  (pc \in {"metrics", "done"} /\ 1 <= k /\ k <= Len(aggregated))
    => /\ IdSet(result) = IdSet(naive)
       /\ NonIncreasingScores(result)
       /\ NonIncreasingScores(naive)

\* C2: for every aggregated mapping of n >= 0 items and every K >= 0, each
\* selector returns, without an error, a ranking of exactly min(K, n) entries.
C2_ExactlyMinKnEntries ==
  /\ pc # "raised"
  /\ pc \in {"naive", "metrics", "done"} => Len(result) = Min(k, Len(aggregated))
  /\ pc \in {"metrics", "done"} => Len(naive) = Min(k, Len(aggregated))

\* C5: during a run of the heap-based selector with K >= 1 the heap never
\* holds more than K elements, in any state of the run, the states between
\* the extract-min and the insert of a replacement step and the state in
\* which the sentinel has been appended included.
C5_HeapSizeAtMostK ==
  k >= 1 => Len(data) <= k

C5_Witness ==
  /\ pc = "decrease"
  /\ k >= 1
  /\ idx >= k
  /\ Len(data) = k
  /\ data[Len(data)] = Sentinel

\* C10: when the harness runs both selectors on the same aggregated input
\* for any K >= 1, Precision@K, Jaccard@K and Spearman's rho of the report
\* row all equal 1.0.
C10_MetricsAllOne ==
  (pc = "done" /\ k >= 1 /\ Len(aggregated) >= 1)
    => /\ IsOne(row.precision_at_k)
       /\ IsOne(row.jaccard_at_k)
       /\ IsOne(row.spearman_rho)

\* ------------------------------------------------ properties of the metrics
CommonIds == IdSet(naive) \cap IdSet(result)

\* C11: spearman_rho returns NaN, written as the text "NaN" in the report
\* row, exactly when the two rankings have fewer than 2 item-ids in common,
\* and a defined number whenever they have 2 or more in common.
C11_RhoNaNIffFewerThanTwoCommon ==
  pc = "done"
    => /\ (row.spearman_rho = NaN) <=> (Cardinality(CommonIds) < 2)
       /\ (row.spearman_rho_cell = "NaN") <=> (Cardinality(CommonIds) < 2)
       /\ Cardinality(CommonIds) >= 2 => row.spearman_rho[2] > 0

C11_Witness ==
  /\ pc = "done"
  /\ Cardinality(CommonIds) = 2
  /\ Len(naive) = 3
  /\ row.spearman_rho # NaN
  /\ row.spearman_rho_cell # "NaN"

\* C12 as claimed: for any two rankings that contain identical items in
\* identical order, of any length, lengths 0 and 1 included, spearman_rho
\* returns 1.0.
C12_IdenticalRankingsRhoOne ==
  (pc = "done" /\ result = naive) => IsOne(row.spearman_rho)

\* C12 as amended: for two rankings that contain identical items in identical
\* order spearman_rho returns 1.0 when they hold at least 2 distinct
\* item-ids, and NaN when they hold fewer than 2.
C12_IdenticalRankingsRhoOneFromTwoIds ==
  (pc = "done" /\ result = naive)
    => IF Cardinality(IdSet(result)) >= 2
         THEN IsOne(row.spearman_rho) /\ row.spearman_rho_cell = "10000"
         ELSE row.spearman_rho = NaN

C12_Witness ==
  /\ pc = "done"
  /\ result = naive
  /\ Len(result) = 3
  /\ Cardinality(IdSet(result)) = 3
  /\ IsOne(row.spearman_rho)


\* ------------------------------------------------------------------- C13
ExistingCategories == SelectSeq([c \in DOMAIN cats |-> c], LAMBDA c : cats[c].exists)
CategoriesOf(rs) == [i \in DOMAIN rs |-> rs[i].category]

\* C13: top_k on a category whose record file does not exist fails with
\* FileNotFoundError and produces no ranking; the batch run never raises, and
\* when it has finished the report holds exactly one row per category whose
\* file exists, in list order.
C13_MissingFileSkipped ==
  /\ (op = "top_k" /\ ~cats[arg].exists) => (res = "FileNotFoundError" /\ ret = NoValue)
  /\ pc # "raised"
  /\ pc = "written" => CategoriesOf(rows) = ExistingCategories


\* ------------------------------------------------------------------- C15
\* C15: in every run of the heap-based selector, for every K >= 0,
\* heap_minimum and heap_extract_min are never called on a heap of zero
\* elements: the run never ends with the empty error.
C15_SelectorNeverRaisesEmpty == err # "IndexError"

\* ------------------------------------------------------------------- C17
\* C17: by the time a category's row is computed its record file has been
\* read and aggregated exactly once, and none of the reads fell inside a
\* timed interval.
C17_ReadOnceOutsideTimedIntervals == pc = "done" => (reads = 1 /\ timedReads = 0)

\* ------------------------------------------------------------------- C20
ScoresOf(ranking) == [i \in DOMAIN ranking |-> ranking[i][1]]

\* C20: for every K >= 1 the heap-based selector returns a result, and its
\* sequence of scores equals, position by position, that of the full-sort
\* selector's result.
C20_SameScoreSequence ==
  k >= 1 => /\ pc # "raised"
            /\ pc \in {"metrics", "done"} => ScoresOf(result) = ScoresOf(naive)


\* ------------------------------------------------------------------- C18
\* C18: on a non-empty heap that satisfies the heap invariant,
\* heap_extract_min returns the root, which is a minimum of the contents,
\* shrinks the heap by exactly one and leaves a heap holding the previous
\* multiset minus one occurrence of the returned element; heap_minimum
\* returns the same element and changes neither contents nor size.
C18_ExtractMinRemovesMinimum ==
  [][(data # <<>> /\ IsMinHeap(data))
       => /\ op' = "heap_extract_min"
               => /\ res' = "ok"
                  /\ ret' = data[1]
                  /\ ret' = SeqMin(data)
                  /\ Len(data') = Len(data) - 1
                  /\ BagOf(data') (+) SetToBag({ret'}) = BagOf(data)
                  /\ IsMinHeap(data')
          /\ op' = "heap_minimum"
               => /\ res' = "ok"
                  /\ ret' = SeqMin(data)
                  /\ ret' = heap_extract_min(data).ret
                  /\ data' = data]_vars

C18_Witness ==
  /\ op = "heap_extract_min"
  /\ res = "ok"
  /\ Len(data) >= 3
  /\ IsMinHeap(data)
  /\ \A v \in Range(data) : Le(ret, v)
  /\ Cardinality(Range(data)) >= 2

\* ------------------------------------------------------------------- C19
\* C19: on a heap that satisfies the heap invariant, heap_decrease_key(i, v)
\* with 0 <= i < size and v <= the value at i succeeds, keeps the size,
\* replaces one occurrence of the old value at i by v in the multiset and
\* leaves the heap invariant restored; if v is smaller than every other
\* element, heap_minimum then returns v.
C19_DecreaseKeyRestoresHeap ==
  [][(op' = "heap_decrease_key" /\ IsMinHeap(data) /\ Le(arg'[2], At(data, arg'[1])))
       => /\ res' = "ok"
          /\ Len(data') = Len(data)
          /\ BagOf(data') (+) SetToBag({At(data, arg'[1])})
               = BagOf(data) (+) SetToBag({arg'[2]})
          /\ IsMinHeap(data')
          /\ (\A j \in 0..(Len(data) - 1) : j # arg'[1] => Lt(arg'[2], At(data, j)))
               => heap_minimum(data') = [res |-> "ok", ret |-> arg'[2], data |-> data']]_vars

C19_Witness ==
  /\ op = "heap_decrease_key"
  /\ res = "ok"
  /\ arg[1] >= 1
  /\ Len(data) >= 3
  /\ IsMinHeap(data)
  /\ data[1] = arg[2]
  /\ Cardinality({i \in DOMAIN data : data[i] = arg[2]}) = 1


\* ------------------------------------------------------------------- C16
\* two (sum_ratings, count) pairs have the same mean rating
SameMean(a, b) ==
  IF a[1] = Inf \/ b[1] = Inf THEN a[1] = b[1] ELSE a[1] * b[2] = b[1] * a[2]

EventsOf(events, id) == SelectSeq(events, LAMBDA e : e[1] = id)

RECURSIVE SumInOrder(_)
SumInOrder(es) ==
  IF Len(es) = 1 THEN es[1][2]
  ELSE FloatAdd(SumInOrder(SubSeq(es, 1, Len(es) - 1)), es[Len(es)][2])

PermutationsOf(s) ==
  {[i \in DOMAIN s |-> s[f[i]]] : f \in Permutations(DOMAIN s)}

\* C14: the aggregator returns exactly one entry per distinct item id of the
\* events, whose count is the number of events of that id (so at least 1)
\* and whose sum is the sum of their ratings; and the mapping it returns, as
\* item id -> (sum, count), is the same for every permutation of the events.
C14_AggregateOrderIndependent ==
  op = "load_and_aggregate"
    => /\ {ret[p][1] : p \in DOMAIN ret} = {arg[i][1] : i \in DOMAIN arg}
       /\ \A p, q \in DOMAIN ret : ret[p][1] = ret[q][1] => p = q
       /\ \A p \in DOMAIN ret :
            /\ ret[p][3] = Len(EventsOf(arg, ret[p][1]))
            /\ ret[p][3] >= 1
            /\ ret[p][2] = SumInOrder(EventsOf(arg, ret[p][1]))
       /\ \A events \in PermutationsOf(arg) :
            Range(load_and_aggregate(events)) = Range(ret)


\* ------------------------------------------------------------------- C21
StrictlyDescending(s) == \A i \in 1..(Len(s) - 1) : Gt(s[i], s[i + 1])

\* C21: the result returned by the heap-based selector is strictly
\* descending in the (score, item_id) tuple order, equal scores appearing
\* with item_id descending, and so is the result of the full-sort selector;
\* whenever the two results hold the same set of item ids they are the same
\* sequence, element by element.
C21_ResultsStrictlyDescendingInTupleOrder ==
  /\ pc \in {"naive", "metrics", "done"} => StrictlyDescending(result)
  /\ pc \in {"metrics", "done"}
       => /\ StrictlyDescending(naive)
          /\ IdSet(result) = IdSet(naive) => result = naive

C21_Witness ==
  /\ pc = "done"
  /\ Len(result) >= 2
  /\ Len(aggregated) > Len(result)
  /\ \E i \in 1..(Len(result) - 1) :
       result[i][1] = result[i + 1][1] /\ result[i][2] > result[i + 1][2]
  /\ IdSet(result) = IdSet(naive)
  /\ result = naive

====
